---- MODULE Spec2Model ----
(***************************************************************************)
(* Agentic dynamic pricing simulator (Mikehem/FlightDynamicPricing).       *)
(*                                                                         *)
(* Two state machines are modelled.                                        *)
(*                                                                         *)
(*  Spec      the storage layer and its HTTP handlers (server/storage.ts,  *)
(*            server/routes.ts): sessions, buckets, the reasoning log, and *)
(*            the request handlers createSession, bookTicket,              *)
(*            runOrchestration and processChatMessage.  Every handler is   *)
(*            an async function; a step of the model is the code between   *)
(*            two awaits that touch the database, so concurrent requests   *)
(*            interleave exactly where the event loop lets them; the       *)
(*            number of switches away from a suspended handler explored in *)
(*            one behaviour is bounded by MaxPreemptions.                  *)
(*                                                                         *)
(*  SpecOrch  the OrchestratorAgent class (plan, dependency-ordered task   *)
(*            loop, per-task defaults, message trace, audit callback).     *)
(*            The onLog callback records its invocation and returns.       *)
(*                                                                         *)
(* The reasoning provider is the environment.  Its reply to a call is any  *)
(* of: the call throws, text with no JSON object, text whose JSON does not *)
(* parse, or a JSON object whose fields have the types the prompt asks for *)
(* but arbitrary values (fields may be absent; a number may be negative,   *)
(* zero, or so large that JSON.parse yields Infinity).  Where the code     *)
(* tests the type of a field, or calls a method of its value, a wrongly    *)
(* typed value is a reply too.  To the OrchestratorAgent, whose calls ask  *)
(* for JSON, the provider may also answer with empty text.                 *)
(*                                                                         *)
(* Multipliers are exact fractions <<n, d>> in lowest terms; the prices    *)
(* the code writes are integers (base prices are multiples of 1000), so    *)
(* Math.round of the floating-point product equals the rounding of the     *)
(* exact product.                                                          *)
(***************************************************************************)
EXTENDS Integers, Sequences, FiniteSets, Bags, TLC

(***************************************************************************)
(* Bounds of the model.                                                    *)
(***************************************************************************)
NumProcs == 2        \* HTTP requests that can be in flight at once
MaxOps == 2          \* requests accepted in one behaviour
MaxSessions == 2     \* rows of the sessions table (the seeded one included)
MaxPreemptions == 1  \* times the event loop leaves a suspended handler for another

Procs == 1..NumProcs

(***************************************************************************)
(* IEEE values the arithmetic of the pricing step can produce.             *)
(***************************************************************************)
NaN == -999999999

IsNaN(x) == x = NaN

\* a * b on JS numbers (integers or NaN)
NumMul(a, b) == IF IsNaN(a) \/ IsNaN(b) THEN NaN ELSE a * b

\* a + b on JS numbers
NumAdd(a, b) == IF IsNaN(a) \/ IsNaN(b) THEN NaN ELSE a + b

\* x || 0 : NaN and 0 are falsy
OrZero(x) == IF IsNaN(x) THEN 0 ELSE x

RECURSIVE GCD(_, _)
GCD(a, b) == IF b = 0 THEN a ELSE GCD(b, a % b)

\* the fraction n/d (n >= 0, d > 0) in lowest terms
Frac(n, d) == LET g == GCD(n, d) IN <<n \div g, d \div g>>

FracLeq(x, y) == x[1] * y[2] <= y[1] * x[2]

FracMin(x, y) == IF FracLeq(x, y) THEN x ELSE y

FracMax(x, y) == IF FracLeq(x, y) THEN y ELSE x

FracMul(x, y) == Frac(x[1] * y[1], x[2] * y[2])

\* Math.round(q) for the non-negative rational q = n/d: floor(q + 1/2)
MathRound(n, d) == (2 * n + d) \div (2 * d)

(***************************************************************************)
(* Scenario table (storage.ts SCENARIOS), the entries the model loads.     *)
(***************************************************************************)
SeedScenario == "ipl-season"

UnknownScenario == "no-such-scenario"

KnownScenarios == {"ipl-season", "severe-weather"}

\* environment.expectedOccupancyToday of each scenario, in percent
ExpectedOccupancyToday(id) ==
    CASE id = "ipl-season" -> 48
      [] id = "severe-weather" -> 20

\* SCENARIOS.find(s => s.id === scenarioId) || SCENARIOS[0]
ScenarioOrFirst(id) == IF id \in KnownScenarios THEN id ELSE "ipl-season"

\* scenario ids a load request may carry
LoadIds == {"severe-weather", UnknownScenario}

\* Math.random() * 15 - 10, in hundredths of a percent: the draws explored
VarianceDraws == {-477, 135}

totalSeats == 192

\* seatsSold of createSession for an expected occupancy and a variance draw
SeatsSold(expected, variance) ==
    LET raw == expected * 100 + variance
        actualOccupancy == IF raw < 0 THEN 0 ELSE IF raw > 10000 THEN 10000 ELSE raw
    IN  MathRound(actualOccupancy * totalSeats, 10000)

\* initialBuckets of createSession
initialBuckets ==
    << [code |-> "ECO_1", class |-> "ECONOMY",  allocated |-> 42, price |-> 12000, basePrice |-> 12000],
       [code |-> "ECO_2", class |-> "ECONOMY",  allocated |-> 42, price |-> 14000, basePrice |-> 14000],
       [code |-> "ECO_3", class |-> "ECONOMY",  allocated |-> 42, price |-> 16000, basePrice |-> 16000],
       [code |-> "ECO_4", class |-> "ECONOMY",  allocated |-> 42, price |-> 18000, basePrice |-> 18000],
       [code |-> "BUS_1", class |-> "BUSINESS", allocated |-> 12, price |-> 28000, basePrice |-> 28000],
       [code |-> "BUS_2", class |-> "BUSINESS", allocated |-> 12, price |-> 32000, basePrice |-> 32000] >>

\* bucketSales of createSession: maxSold per bucket, cheapest first
bucketSales == [i \in 1..6 |-> initialBuckets[i].allocated]

Min2(a, b) == IF a <= b THEN a ELSE b

RECURSIVE SumTo(_, _)
SumTo(f, n) == IF n = 0 THEN 0 ELSE f[n] + SumTo(f, n - 1)

\* soldPerBucket of createSession: fill the buckets in order until
\* remainingToSell is used up
SoldPerBucket(seatsSold) ==
    [i \in 1..6 |->
        LET before == SumTo(bucketSales, i - 1)
            remainingToSell == IF seatsSold > before THEN seatsSold - before ELSE 0
        IN  Min2(remainingToSell, bucketSales[i])]


(***************************************************************************)
(* The pricing step of runOrchestration: feature multipliers, their        *)
(* product, the clamp and the class-based scaling.                         *)
(***************************************************************************)
Features == <<"demand", "urgency", "competition", "fuel", "seasonality">>

\* the "value" of one feature in the reply: absent, not a number (a string,
\* null, NaN), a finite number in tenths, or a number that parses to Infinity
Absent == [t |-> "absent", v |-> 0]

FeatureValues ==
    {Absent, [t |-> "notnum", v |-> 0], [t |-> "inf", v |-> 0]}
    \cup {[t |-> "num", v |-> x] : x \in {0, 11, 30}}

\* the replies explored: "demand" takes every value, "urgency" is absent or
\* zero, the other three features are absent (the product is symmetric in
\* the five features)
PricingReplies ==
    {[f \in {Features[i] : i \in 1..5} |->
        IF f = "demand" THEN d ELSE IF f = "urgency" THEN u ELSE Absent] :
     d \in FeatureValues, u \in {Absent, [t |-> "num", v |-> 0]}}

One == <<1, 1>>

\* defaultMultiplier.value
defaultMultiplierValue == [k |-> "fin", f |-> One]

\* result.multipliers?.x || defaultMultiplier, then the typeof/isNaN test:
\* the number that enters the product
ValidatedValue(val) ==
    CASE val.t = "absent" -> defaultMultiplierValue
      [] val.t = "notnum" -> defaultMultiplierValue
      [] val.t = "inf"    -> [k |-> "inf", f |-> One]
      [] val.t = "num"    -> [k |-> "fin", f |-> Frac(val.v, 10)]

\* x * y on JS numbers: Infinity * 0 is NaN
Times(x, y) ==
    CASE x.k = "nan" \/ y.k = "nan" -> [k |-> "nan", f |-> One]
      [] x.k = "inf" /\ y.k = "inf" -> [k |-> "inf", f |-> One]
      [] x.k = "inf" -> IF y.f[1] = 0 THEN [k |-> "nan", f |-> One] ELSE [k |-> "inf", f |-> One]
      [] y.k = "inf" -> IF x.f[1] = 0 THEN [k |-> "nan", f |-> One] ELSE [k |-> "inf", f |-> One]
      [] OTHER -> [k |-> "fin", f |-> FracMul(x.f, y.f)]

RECURSIVE ProductTo(_, _)
ProductTo(reply, n) ==
    IF n = 0 THEN defaultMultiplierValue
    ELSE Times(ProductTo(reply, n - 1), ValidatedValue(reply[Features[n]]))

\* combinedMultiplier: the product of the five validated feature values
CombinedMultiplier(reply) == ProductTo(reply, 5)

ClampLow == <<4, 5>>     \* 0.80

ClampHigh == <<6, 5>>    \* 1.20

BusinessScale == <<21, 20>>   \* 1.05

BusinessCap == <<5, 4>>       \* 1.25

\* Math.max(0.80, Math.min(1.20, combinedMultiplier)); Math.min and
\* Math.max return NaN when an argument is NaN
ClampedMultiplier(combined) ==
    CASE combined.k = "nan" -> [k |-> "nan", f |-> One]
      [] combined.k = "inf" -> [k |-> "fin", f |-> ClampHigh]
      [] OTHER -> [k |-> "fin", f |-> FracMax(ClampLow, FracMin(ClampHigh, combined.f))]

\* a variant that scales the bucket's current price instead of its base price
NewPriceCompounding(bucket, clamped) ==
    IF clamped.k = "nan" \/ IsNaN(bucket.price) THEN NaN
    ELSE LET m == IF bucket.class = "BUSINESS"
                  THEN FracMin(BusinessCap, FracMul(clamped.f, BusinessScale))
                  ELSE clamped.f
         IN  MathRound(bucket.price * m[1], m[2])

\* newPrice of one bucket: Math.round(bucket.basePrice * bucketMultiplier)
NewPrice(bucket, clamped) ==
    IF clamped.k = "nan" THEN NaN
    ELSE LET bucketMultiplier ==
                 IF bucket.class = "BUSINESS"
                 THEN FracMin(BusinessCap, FracMul(clamped.f, BusinessScale))
                 ELSE clamped.f
         IN  MathRound(bucket.basePrice * bucketMultiplier[1], bucketMultiplier[2])

(***************************************************************************)
(* State of the storage layer.                                             *)
(***************************************************************************)
VARIABLES
    sessions,        \* table sessions: row i has id i
    buckets,         \* table buckets: row i has id i
    reasoningLogs,   \* table reasoning_logs, a bag of entries
    listening,       \* the server accepts requests (registerRoutes returned)
    opsLeft,         \* requests the model may still accept
    pc,              \* per request handler: where it is suspended
    loc,             \* per request handler: its local variables
    last,            \* the handler the event loop resumed last
    preemptLeft      \* switches between suspended handlers still explored

storageVars == <<sessions, buckets, reasoningLogs, listening, opsLeft, pc, loc, last, preemptLeft>>

NoBucket ==
    [id |-> 0, sessionId |-> 0, code |-> "", class |-> "", allocated |-> 0,
     sold |-> 0, price |-> 0, basePrice |-> 0]

NoSession == [id |-> 0, scenarioId |-> "", active |-> FALSE, totalRevenue |-> 0, loadFactor |-> 0]

NoMultiplier == [k |-> "fin", f |-> One]

\* the locals of a handler that is not running
IdleLoc ==
    [op |-> "none", sessionId |-> 0, scenarioId |-> "", bucketCode |-> "", quantity |-> 0,
     currentBuckets |-> <<>>, targetBucket |-> NoBucket, session |-> NoSession,
     combined |-> NoMultiplier, clamped |-> NoMultiplier, idx |-> 0,
     soldPerBucket |-> <<>>, totalRevenue |-> 0,
     ran |-> {}, logged |-> {}, priced |-> FALSE, status |-> 0]

Max(S) == CHOOSE x \in S : \A y \in S : y <= x

\* a lookup that takes the latest session row, active or not
CurrentSessionIdLatestRow == Len(sessions)

\* getCurrentSession: the active session with the highest id, or none
CurrentSessionId ==
    LET act == {i \in 1..Len(sessions) : sessions[i].active}
    IN  IF act = {} THEN 0 ELSE Max(act)

SessionRow(i) == IF i = 0 THEN NoSession ELSE sessions[i]

\* getBuckets(sessionId): the rows of the session, in id order
RECURSIVE RowsOf(_, _)
RowsOf(sid, n) ==
    IF n = 0 THEN <<>>
    ELSE IF buckets[n].sessionId = sid THEN Append(RowsOf(sid, n - 1), buckets[n])
         ELSE RowsOf(sid, n - 1)

GetBuckets(sid) == RowsOf(sid, Len(buckets))

\* the first row with the session id and the code, or NoBucket
FindBucket(rows, code) ==
    LET hit == {i \in 1..Len(rows) : rows[i].code = code}
    IN  IF hit = {} THEN NoBucket ELSE rows[CHOOSE i \in hit : \A j \in hit : i <= j]

LogEntry(sid, agent, decision) == [sessionId |-> sid, agentName |-> agent, decision |-> decision]

\* logReasoning: one more row in reasoning_logs
LogReasoning(sid, agent, decision) == reasoningLogs (+) SetToBag({LogEntry(sid, agent, decision)})

Set(p, f) == [loc EXCEPT ![p] = f]


(***************************************************************************)
(* Request inputs the model draws.                                         *)
(***************************************************************************)
BookCodes == {"ECO_2", "NO_SUCH"}

\* quantity of a book request (the route's schema demands a number >= 1)
BookQuantities == {1, 2}

\* "passengers" of a COMPLETE_BOOKING action in the provider's chat reply
ChatPassengers == {-1, 0}

(***************************************************************************)
(* createSession (storage.ts 439-519), called by the load route and by the *)
(* seeding at the end of registerRoutes.                                   *)
(***************************************************************************)
\* db.update(sessions).set({ active: false })
DeactivateAll == [i \in 1..Len(sessions) |-> [sessions[i] EXCEPT !.active = FALSE]]

\* POST /api/scenarios/load: parse the body, then createSession's first
\* statement
LoadScenario(p) ==
    /\ listening /\ pc[p] = "idle" /\ opsLeft > 0 /\ Len(sessions) < MaxSessions
    /\ \E id \in LoadIds :
          loc' = Set(p, [IdleLoc EXCEPT !.op = "load", !.scenarioId = id])
    /\ sessions' = DeactivateAll
    /\ pc' = [pc EXCEPT ![p] = "cs_insert"]
    /\ opsLeft' = opsLeft - 1
    /\ UNCHANGED <<buckets, reasoningLogs, listening>>

\* seatsSold is computed, then the session row is inserted
CreateSessionInsert(p) ==
    /\ pc[p] = "cs_insert"
    /\ \E variance \in VarianceDraws :
          LET scenario == ScenarioOrFirst(loc[p].scenarioId)
              seatsSold == SeatsSold(ExpectedOccupancyToday(scenario), variance)
          IN  loc' = Set(p, [loc[p] EXCEPT !.sessionId = Len(sessions) + 1,
                                           !.soldPerBucket = SoldPerBucket(seatsSold),
                                           !.totalRevenue = 0,
                                           !.idx = 1])
    /\ sessions' = Append(sessions,
                     [id |-> Len(sessions) + 1, scenarioId |-> loc[p].scenarioId,
                      active |-> TRUE, totalRevenue |-> 0, loadFactor |-> 0])
    /\ pc' = [pc EXCEPT ![p] = "cs_buckets"]
    /\ UNCHANGED <<buckets, reasoningLogs, listening, opsLeft>>

\* one turn of the loop over initialBuckets: one bucket row is inserted
CreateSessionBucket(p) ==
    /\ pc[p] = "cs_buckets"
    /\ LET b == initialBuckets[loc[p].idx]
           sold == loc[p].soldPerBucket[loc[p].idx]
       IN  /\ buckets' = Append(buckets,
                           [id |-> Len(buckets) + 1, sessionId |-> loc[p].sessionId,
                            code |-> b.code, class |-> b.class, allocated |-> b.allocated,
                            sold |-> sold, price |-> b.price, basePrice |-> b.basePrice])
           /\ loc' = Set(p, [loc[p] EXCEPT !.totalRevenue = @ + sold * b.price,
                                            !.idx = @ + 1])
    /\ pc' = [pc EXCEPT ![p] = IF loc[p].idx = Len(initialBuckets) THEN "cs_revenue" ELSE "cs_buckets"]
    /\ UNCHANGED <<sessions, reasoningLogs, listening, opsLeft>>

\* the initial revenue is stored (when positive) and the load is logged
CreateSessionRevenue(p) ==
    /\ pc[p] = "cs_revenue"
    /\ sessions' = IF loc[p].totalRevenue > 0
                   THEN [sessions EXCEPT ![loc[p].sessionId].totalRevenue = loc[p].totalRevenue]
                   ELSE sessions
    /\ reasoningLogs' = LogReasoning(loc[p].sessionId, "System", "Initialization")
    /\ loc' = Set(p, [loc[p] EXCEPT !.status = 201])
    /\ pc' = [pc EXCEPT ![p] = "respond"]
    /\ UNCHANGED <<buckets, listening, opsLeft>>

\* the handler sends its response; the seeding call returns and the server
\* starts to listen
Respond(p) ==
    /\ pc[p] = "respond"
    /\ pc' = [pc EXCEPT ![p] = "idle"]
    /\ loc' = Set(p, IdleLoc)
    /\ listening' = TRUE
    /\ UNCHANGED <<sessions, buckets, reasoningLogs, opsLeft>>


(***************************************************************************)
(* POST /api/simulation/book (routes.ts 67-87) and bookTicket              *)
(* (storage.ts 533-556).                                                   *)
(***************************************************************************)
\* the handler parses the body and looks up the active session
Book(p) ==
    /\ listening /\ pc[p] = "idle" /\ opsLeft > 0
    /\ opsLeft' = opsLeft - 1
    /\ \E code \in BookCodes, quantity \in BookQuantities :
          IF CurrentSessionId = 0
          THEN /\ loc' = Set(p, [IdleLoc EXCEPT !.op = "book", !.status = 404])
               /\ pc' = [pc EXCEPT ![p] = "respond"]
          ELSE /\ loc' = Set(p, [IdleLoc EXCEPT !.op = "book", !.sessionId = CurrentSessionId,
                                                !.bucketCode = code, !.quantity = quantity])
               /\ pc' = [pc EXCEPT ![p] = "bt_select"]
    /\ UNCHANGED <<sessions, buckets, reasoningLogs, listening>>

\* a capacity check that lets a booking fill one seat more than allocated
BookingRejectedOffByOne(targetBucket, quantity) ==
    targetBucket.id = 0 \/ targetBucket.sold + quantity > targetBucket.allocated + 1

\* !targetBucket || (targetBucket.sold || 0) + quantity > targetBucket.allocated
BookingRejected(targetBucket, quantity) ==
    targetBucket.id = 0 \/ OrZero(targetBucket.sold) + quantity > targetBucket.allocated

\* bookTicket: the target bucket is read and the capacity is checked
BookSelect(p) ==
    /\ pc[p] = "bt_select"
    /\ LET targetBucket == FindBucket(GetBuckets(loc[p].sessionId), loc[p].bucketCode)
       IN  IF BookingRejected(targetBucket, loc[p].quantity)
           THEN /\ loc' = Set(p, [loc[p] EXCEPT !.status = 400])
                /\ pc' = [pc EXCEPT ![p] = "respond"]
           ELSE /\ loc' = Set(p, [loc[p] EXCEPT !.targetBucket = targetBucket])
                /\ pc' = [pc EXCEPT ![p] = "bt_sold"]
    /\ UNCHANGED <<sessions, buckets, reasoningLogs, listening, opsLeft>>

\* sold := targetBucket.sold + quantity, from the row read before
BookUpdateSold(p) ==
    /\ pc[p] = "bt_sold"
    /\ buckets' = [buckets EXCEPT ![loc[p].targetBucket.id].sold =
                       loc[p].targetBucket.sold + loc[p].quantity]
    /\ pc' = [pc EXCEPT ![p] = "bt_session"]
    /\ UNCHANGED <<sessions, reasoningLogs, listening, opsLeft, loc>>

\* the session row is read for the revenue update
BookSelectSession(p) ==
    /\ pc[p] = "bt_session"
    /\ loc' = Set(p, [loc[p] EXCEPT !.session = sessions[loc[p].sessionId]])
    /\ pc' = [pc EXCEPT ![p] = "bt_revenue"]
    /\ UNCHANGED <<sessions, buckets, reasoningLogs, listening, opsLeft>>

\* totalRevenue := (session.totalRevenue || 0) + targetBucket.price * quantity;
\* bookTicket returns true and the handler calls runOrchestration
BookUpdateRevenue(p) ==
    /\ pc[p] = "bt_revenue"
    /\ sessions' = [sessions EXCEPT ![loc[p].sessionId].totalRevenue =
                       NumAdd(OrZero(loc[p].session.totalRevenue),
                              NumMul(loc[p].targetBucket.price, loc[p].quantity))]
    /\ pc' = [pc EXCEPT ![p] = "ro_session"]
    /\ UNCHANGED <<buckets, reasoningLogs, listening, opsLeft, loc>>

(***************************************************************************)
(* POST /api/simulation/orchestrate (routes.ts 51-65) and runOrchestration *)
(* (storage.ts 568-883).                                                   *)
(***************************************************************************)
\* the handler looks up the active session
Orchestrate(p) ==
    /\ listening /\ pc[p] = "idle" /\ opsLeft > 0
    /\ opsLeft' = opsLeft - 1
    /\ IF CurrentSessionId = 0
       THEN /\ loc' = Set(p, [IdleLoc EXCEPT !.op = "orchestrate", !.status = 404])
            /\ pc' = [pc EXCEPT ![p] = "respond"]
       ELSE /\ loc' = Set(p, [IdleLoc EXCEPT !.op = "orchestrate", !.sessionId = CurrentSessionId])
            /\ pc' = [pc EXCEPT ![p] = "ro_session"]
    /\ UNCHANGED <<sessions, buckets, reasoningLogs, listening>>

\* runOrchestration: getCurrentSession again; return unless it is sessionId
RunOrchestration(p) ==
    /\ pc[p] = "ro_session"
    /\ IF CurrentSessionId = 0 \/ CurrentSessionId # loc[p].sessionId
       THEN /\ loc' = Set(p, [loc[p] EXCEPT !.status = 200])
            /\ pc' = [pc EXCEPT ![p] = "respond"]
       ELSE /\ loc' = Set(p, [loc[p] EXCEPT !.session = sessions[CurrentSessionId]])
            /\ pc' = [pc EXCEPT ![p] = "ro_buckets"]
    /\ UNCHANGED <<sessions, buckets, reasoningLogs, listening, opsLeft>>

\* currentBuckets is read; return when the session's scenario id names no
\* scenario
RoGetBuckets(p) ==
    /\ pc[p] = "ro_buckets"
    /\ IF loc[p].session.scenarioId \notin KnownScenarios
       THEN /\ loc' = Set(p, [loc[p] EXCEPT !.status = 200])
            /\ pc' = [pc EXCEPT ![p] = "respond"]
       ELSE /\ loc' = Set(p, [loc[p] EXCEPT !.currentBuckets = GetBuckets(loc[p].sessionId)])
            /\ pc' = [pc EXCEPT ![p] = "ro_forecast"]
    /\ UNCHANGED <<sessions, buckets, reasoningLogs, listening, opsLeft>>

\* 1. forecast agent: the entry is logged unless the call or the parse throws
RoForecast(p) ==
    /\ pc[p] = "ro_forecast"
    /\ \E reply \in {"throws", "no_json", "bad_json", "json"} :
          IF reply \in {"throws", "bad_json"}
          THEN /\ reasoningLogs' = reasoningLogs
               /\ loc' = Set(p, [loc[p] EXCEPT !.ran = @ \cup {"Forecast Agent"}])
          ELSE /\ reasoningLogs' = LogReasoning(loc[p].sessionId, "Forecast Agent", "Demand Score")
               /\ loc' = Set(p, [loc[p] EXCEPT !.ran = @ \cup {"Forecast Agent"},
                                                !.logged = @ \cup {"Forecast Agent"}])
    /\ pc' = [pc EXCEPT ![p] = "ro_pricing"]
    /\ UNCHANGED <<sessions, buckets, listening, opsLeft>>

\* a pricing step that goes on with the default multiplier after a parse
\* error, as its log entry says
RoPricingDefaultPricing(p) ==
    /\ pc[p] = "ro_pricing"
    /\ \/ /\ reasoningLogs' = reasoningLogs
          /\ loc' = Set(p, [loc[p] EXCEPT !.ran = @ \cup {"Pricing Agent"}])
          /\ pc' = [pc EXCEPT ![p] = "ro_seat"]
       \/ /\ reasoningLogs' = LogReasoning(loc[p].sessionId, "Pricing Agent", "Parse Error")
          /\ loc' = Set(p, [loc[p] EXCEPT !.ran = @ \cup {"Pricing Agent"},
                                           !.logged = @ \cup {"Pricing Agent"},
                                           !.combined = defaultMultiplierValue,
                                           !.clamped = defaultMultiplierValue,
                                           !.idx = 1])
          /\ pc' = [pc EXCEPT ![p] = IF loc[p].currentBuckets = <<>> THEN "ro_seat" ELSE "ro_write"]
       \/ \E reply \in PricingReplies :
             LET combined == CombinedMultiplier(reply)
             IN  /\ reasoningLogs' = LogReasoning(loc[p].sessionId, "Pricing Agent", "Multiplier")
                 /\ loc' = Set(p, [loc[p] EXCEPT !.ran = @ \cup {"Pricing Agent"},
                                                  !.logged = @ \cup {"Pricing Agent"},
                                                  !.combined = combined,
                                                  !.clamped = ClampedMultiplier(combined),
                                                  !.priced = TRUE,
                                                  !.idx = 1])
                 /\ pc' = [pc EXCEPT ![p] = IF loc[p].currentBuckets = <<>> THEN "ro_seat" ELSE "ro_write"]
    /\ UNCHANGED <<sessions, buckets, listening, opsLeft>>

\* 2. pricing agent up to the first price write: the reply is parsed, the
\* multipliers validated, multiplied and clamped, and the entry logged
RoPricing(p) ==
    /\ pc[p] = "ro_pricing"
    /\ \/ \* the provider call throws
          /\ reasoningLogs' = reasoningLogs
          /\ loc' = Set(p, [loc[p] EXCEPT !.ran = @ \cup {"Pricing Agent"}])
          /\ pc' = [pc EXCEPT ![p] = "ro_seat"]
       \/ \* no JSON in the text, or JSON.parse throws
          /\ reasoningLogs' = LogReasoning(loc[p].sessionId, "Pricing Agent", "Parse Error")
          /\ loc' = Set(p, [loc[p] EXCEPT !.ran = @ \cup {"Pricing Agent"},
                                           !.logged = @ \cup {"Pricing Agent"}])
          /\ pc' = [pc EXCEPT ![p] = "ro_seat"]
       \/ \E reply \in PricingReplies :
             LET combined == CombinedMultiplier(reply)
             IN  /\ reasoningLogs' = LogReasoning(loc[p].sessionId, "Pricing Agent", "Multiplier")
                 /\ loc' = Set(p, [loc[p] EXCEPT !.ran = @ \cup {"Pricing Agent"},
                                                  !.logged = @ \cup {"Pricing Agent"},
                                                  !.combined = combined,
                                                  !.clamped = ClampedMultiplier(combined),
                                                  !.priced = TRUE,
                                                  !.idx = 1])
                 /\ pc' = [pc EXCEPT ![p] = IF loc[p].currentBuckets = <<>> THEN "ro_seat" ELSE "ro_write"]
    /\ UNCHANGED <<sessions, buckets, listening, opsLeft>>

\* one turn of the loop over currentBuckets: one price is written
\* a price write that saves the whole row of the snapshot
RoWritePriceWholeRow(p) ==
    /\ pc[p] = "ro_write"
    /\ LET bucket == loc[p].currentBuckets[loc[p].idx]
       IN  buckets' = [buckets EXCEPT ![bucket.id] =
                          [bucket EXCEPT !.price = NewPrice(bucket, loc[p].clamped)]]
    /\ loc' = Set(p, [loc[p] EXCEPT !.idx = @ + 1])
    /\ pc' = [pc EXCEPT ![p] = IF loc[p].idx = Len(loc[p].currentBuckets) THEN "ro_seat" ELSE "ro_write"]
    /\ UNCHANGED <<sessions, reasoningLogs, listening, opsLeft>>

RoWritePrice(p) ==
    /\ pc[p] = "ro_write"
    /\ LET bucket == loc[p].currentBuckets[loc[p].idx]
       IN  buckets' = [buckets EXCEPT ![bucket.id].price = NewPrice(bucket, loc[p].clamped)]
    /\ loc' = Set(p, [loc[p] EXCEPT !.idx = @ + 1])
    /\ pc' = [pc EXCEPT ![p] = IF loc[p].idx = Len(loc[p].currentBuckets) THEN "ro_seat" ELSE "ro_write"]
    /\ UNCHANGED <<sessions, reasoningLogs, listening, opsLeft>>

\* 3. seat allocation agent: logged only when a JSON object was parsed
RoSeatAllocation(p) ==
    /\ pc[p] = "ro_seat"
    /\ \E reply \in {"throws", "no_json", "bad_json", "json"} :
          IF reply = "json"
          THEN /\ reasoningLogs' = LogReasoning(loc[p].sessionId, "Seat Allocation Agent", "Recommendation")
               /\ loc' = Set(p, [loc[p] EXCEPT !.ran = @ \cup {"Seat Allocation Agent"},
                                                !.logged = @ \cup {"Seat Allocation Agent"}])
          ELSE /\ reasoningLogs' = reasoningLogs
               /\ loc' = Set(p, [loc[p] EXCEPT !.ran = @ \cup {"Seat Allocation Agent"}])
    /\ pc' = [pc EXCEPT ![p] = "ro_competitor"]
    /\ UNCHANGED <<sessions, buckets, listening, opsLeft>>

\* 4. competitor agent: logged only when a JSON object was parsed; the round
\* returns to its handler
RoCompetitor(p) ==
    /\ pc[p] = "ro_competitor"
    /\ \E reply \in {"throws", "no_json", "bad_json", "json"} :
          IF reply = "json"
          THEN /\ reasoningLogs' = LogReasoning(loc[p].sessionId, "Competitor Agent", "Position")
               /\ loc' = Set(p, [loc[p] EXCEPT !.ran = @ \cup {"Competitor Agent"},
                                                !.logged = @ \cup {"Competitor Agent"},
                                                !.status = 200])
          ELSE /\ reasoningLogs' = reasoningLogs
               /\ loc' = Set(p, [loc[p] EXCEPT !.ran = @ \cup {"Competitor Agent"},
                                                !.status = 200])
    /\ pc' = [pc EXCEPT ![p] = "respond"]
    /\ UNCHANGED <<sessions, buckets, listening, opsLeft>>


(***************************************************************************)
(* POST /api/chat/send (routes.ts 101-121) and processChatMessage          *)
(* (storage.ts 885-1101).                                                  *)
(***************************************************************************)
ChatCodes == {"ECO_2", "BUS_1"}

\* the handler looks up the active session
Chat(p) ==
    /\ listening /\ pc[p] = "idle" /\ opsLeft > 0
    /\ opsLeft' = opsLeft - 1
    /\ IF CurrentSessionId = 0
       THEN /\ loc' = Set(p, [IdleLoc EXCEPT !.op = "chat", !.status = 404])
            /\ pc' = [pc EXCEPT ![p] = "respond"]
       ELSE /\ loc' = Set(p, [IdleLoc EXCEPT !.op = "chat", !.sessionId = CurrentSessionId])
            /\ pc' = [pc EXCEPT ![p] = "pc_session"]
    /\ UNCHANGED <<sessions, buckets, reasoningLogs, listening>>

\* processChatMessage: session = getCurrentSession()
ChatGetSession(p) ==
    /\ pc[p] = "pc_session"
    /\ loc' = Set(p, [loc[p] EXCEPT !.session = SessionRow(CurrentSessionId)])
    /\ pc' = [pc EXCEPT ![p] = "pc_buckets"]
    /\ UNCHANGED <<sessions, buckets, reasoningLogs, listening, opsLeft>>

\* currentBuckets = getBuckets(sessionId); without a session the error
\* message is the answer
ChatGetBuckets(p) ==
    /\ pc[p] = "pc_buckets"
    /\ IF loc[p].session.id = 0
       THEN /\ loc' = Set(p, [loc[p] EXCEPT !.status = 200])
            /\ pc' = [pc EXCEPT ![p] = "respond"]
       ELSE /\ loc' = Set(p, [loc[p] EXCEPT !.currentBuckets = GetBuckets(loc[p].sessionId)])
            /\ pc' = [pc EXCEPT ![p] = "pc_provider"]
    /\ UNCHANGED <<sessions, buckets, reasoningLogs, listening, opsLeft>>

\* the provider answers; a COMPLETE_BOOKING action is checked against the
\* bucket snapshot
ChatProvider(p) ==
    /\ pc[p] = "pc_provider"
    /\ \/ \* the call throws, or the text holds no booking action
          /\ loc' = Set(p, [loc[p] EXCEPT !.status = 200])
          /\ pc' = [pc EXCEPT ![p] = "respond"]
       \/ \E code \in ChatCodes, n \in ChatPassengers :
             LET bucket == FindBucket(loc[p].currentBuckets, code)
                 passengers == IF n = 0 THEN 1 ELSE n
                 available == bucket.allocated - bucket.sold
             IN  IF bucket.id # 0 /\ available >= passengers
                 THEN /\ loc' = Set(p, [loc[p] EXCEPT !.bucketCode = code,
                                                      !.quantity = passengers,
                                                      !.targetBucket = bucket])
                      /\ pc' = [pc EXCEPT ![p] = "pc_sold"]
                 ELSE /\ loc' = Set(p, [loc[p] EXCEPT !.status = 200])
                      /\ pc' = [pc EXCEPT ![p] = "respond"]
    /\ UNCHANGED <<sessions, buckets, reasoningLogs, listening, opsLeft>>

\* sold := bucket.sold + passengers, from the snapshot
ChatUpdateSold(p) ==
    /\ pc[p] = "pc_sold"
    /\ buckets' = [buckets EXCEPT ![loc[p].targetBucket.id].sold =
                       loc[p].targetBucket.sold + loc[p].quantity]
    /\ pc' = [pc EXCEPT ![p] = "pc_revenue"]
    /\ UNCHANGED <<sessions, reasoningLogs, listening, opsLeft, loc>>

\* totalRevenue := (session.totalRevenue || 0) + totalFare, from the session
\* read at the start; the booking is logged
ChatUpdateRevenue(p) ==
    /\ pc[p] = "pc_revenue"
    /\ LET pricePerSeat == OrZero(loc[p].targetBucket.price)
           totalFare == pricePerSeat * loc[p].quantity
       IN  sessions' = [sessions EXCEPT ![loc[p].sessionId].totalRevenue =
                           NumAdd(OrZero(loc[p].session.totalRevenue), totalFare)]
    /\ reasoningLogs' = LogReasoning(loc[p].sessionId, "Booking Agent", "Booking Confirmed")
    /\ loc' = Set(p, [loc[p] EXCEPT !.status = 200])
    /\ pc' = [pc EXCEPT ![p] = "respond"]
    /\ UNCHANGED <<buckets, listening, opsLeft>>

(***************************************************************************)
(* OrchestratorAgent (logger.ts 101-663): one instance, whose orchestrate()*)
(* is called once per round.                                               *)
(***************************************************************************)
MaxTasks == 3        \* tasks in a plan the provider returns
MaxRounds == 2       \* calls of orchestrate() on the instance

SubAgentTypes == {"objective", "forecast", "pricing", "seat_allocation", "competitor"}

UnknownAgent == "unknown_agent"

Task(type, priority, deps) == [agentType |-> type, priority |-> priority, dependsOn |-> deps]

\* getDefaultPlan with the competitor task waiting for the objective task
getDefaultPlanCompetitorDepends ==
    [reasoning |-> "Fallback plan due to planning error",
     strategy |-> "BALANCED",
     tasks |-> << Task("objective", 1, {}),
                  Task("forecast", 2, {"objective"}),
                  Task("competitor", 2, {"objective"}),
                  Task("pricing", 3, {"objective", "forecast"}),
                  Task("seat_allocation", 4, {"pricing"}) >>]

\* getDefaultPlan
getDefaultPlan ==
    [reasoning |-> "Fallback plan due to planning error",
     strategy |-> "BALANCED",
     tasks |-> << Task("objective", 1, {}),
                  Task("forecast", 2, {"objective"}),
                  Task("competitor", 2, {}),
                  Task("pricing", 3, {"objective", "forecast"}),
                  Task("seat_allocation", 4, {"pricing"}) >>]

\* the task objects a provider plan is drawn from: agentType, priority
\* (0 stands for an absent or zero priority) and dependsOn
PlanTypes == {"objective", "forecast", "pricing", UnknownAgent}

PlanPriorities == {0, 2}

PlanDepends == {{}, {"objective"}, {"forecast"}, {"objective", "forecast"}}

RawTasks == {Task(a, pr, d) : a \in PlanTypes, pr \in PlanPriorities, d \in PlanDepends}

\* parsed.tasks of the provider's plan: a list of n task objects
RawPlans(n) == [1..n -> RawTasks]

\* generatePlan on a parsed reply: every task is mapped, priority || 1
PlanFromReply(rawTasks) ==
    [reasoning |-> "Default balanced approach",
     strategy |-> "BALANCED",
     tasks |-> [i \in 1..Len(rawTasks) |->
                  Task(rawTasks[i].agentType,
                       IF rawTasks[i].priority = 0 THEN 1 ELSE rawTasks[i].priority,
                       rawTasks[i].dependsOn)]]

\* an insertion that puts a task before the tasks of equal priority
RECURSIVE InsertBeforeEqualPriority(_, _)
InsertBeforeEqualPriority(sorted, t) ==
    IF sorted = <<>> THEN <<t>>
    ELSE IF sorted[Len(sorted)].priority < t.priority THEN Append(sorted, t)
         ELSE Append(InsertBeforeEqualPriority(SubSeq(sorted, 1, Len(sorted) - 1), t),
                     sorted[Len(sorted)])

\* [...tasks].sort((a, b) => a.priority - b.priority): a stable sort
RECURSIVE InsertByPriority(_, _)
InsertByPriority(sorted, t) ==
    IF sorted = <<>> THEN <<t>>
    ELSE IF sorted[Len(sorted)].priority <= t.priority THEN Append(sorted, t)
         ELSE Append(InsertByPriority(SubSeq(sorted, 1, Len(sorted) - 1), t), sorted[Len(sorted)])

RECURSIVE SortByPriority(_)
SortByPriority(tasks) ==
    IF tasks = <<>> THEN <<>>
    ELSE InsertByPriority(SortByPriority(SubSeq(tasks, 1, Len(tasks) - 1)), tasks[Len(tasks)])

(***************************************************************************)
(* The five sub-agents.  A reply is [kind, obj]: the call (or JSON.parse)  *)
(* throws, or obj is the parsed object; an absent field and a falsy one    *)
(* ("" here) are the same to the code's `||` defaults.                     *)
(***************************************************************************)
Throws == [kind |-> "throws", obj |-> [none |-> ""]]

Json(obj) == [kind |-> "json", obj |-> obj]

\* no provider call is made (the default branch of the switch)
NoCall == [kind |-> "none", obj |-> [none |-> ""]]

\* the reply is text that JSON.parse rejects
NotJson == [kind |-> "notjson", obj |-> [none |-> ""]]

\* the reply is empty text
EmptyText == [kind |-> "empty", obj |-> [none |-> ""]]

\* JSON.parse(response.text || "{}"): empty text is parsed as {}, an object
\* with every field absent
JsonParse(reply, fields) == IF reply.kind = "empty" THEN [f \in fields |-> ""] ELSE reply.obj

\* a string where the prompt asks for a number
NotANumber == "not-a-number"

\* (x || default).toFixed(2): a string has no toFixed method
ToFixedThrows(x) == x = NotANumber

\* the try block of a run*Agent throws: the call or JSON.parse throws, or the
\* decision line calls toFixed on a string
Catches(type, reply) ==
    \/ reply.kind \in {"throws", "notjson"}
    \/ reply.kind = "json" /\ type = "forecast" /\ ToFixedThrows(reply.obj.demandScore)
    \/ reply.kind = "json" /\ type = "pricing" /\ ToFixedThrows(reply.obj.multiplier)

Or(x, default) == IF x = "" THEN default ELSE x

ObjectiveReplies ==
    {Throws, NotJson, EmptyText,
     Json([objective |-> "", confidence |-> "", urgency |-> ""]),
     Json([objective |-> "OCCUPANCY_MAXIMIZATION", confidence |-> "HIGH", urgency |-> ""])}

ForecastReplies ==
    {Throws, NotJson, EmptyText,
     Json([demandScore |-> NotANumber, bookingVelocity |-> "ACCELERATING", peakProbability |-> ""]),
     Json([demandScore |-> "", bookingVelocity |-> "", peakProbability |-> ""]),
     Json([demandScore |-> "0.8", bookingVelocity |-> "ACCELERATING", peakProbability |-> ""])}

PricingAgentReplies ==
    {Throws, NotJson, EmptyText,
     Json([multiplier |-> NotANumber, adjustmentType |-> "INCREASE"]),
     Json([multiplier |-> "", adjustmentType |-> ""]),
     Json([multiplier |-> "1.3", adjustmentType |-> "INCREASE"]),
     Json([multiplier |-> "1.3", adjustmentType |-> "HOLD"])}

SeatAllocationReplies ==
    {Throws, NotJson, EmptyText,
     Json([action |-> "", confidence |-> ""]),
     Json([action |-> "REALLOCATE_UP", confidence |-> ""])}

CompetitorReplies ==
    {Throws, NotJson, EmptyText,
     Json([threatLevel |-> "", marketPosition |-> ""]),
     Json([threatLevel |-> "HIGH", marketPosition |-> ""])}

RepliesFor(type) ==
    CASE type = "objective" -> ObjectiveReplies
      [] type = "forecast" -> ForecastReplies
      [] type = "pricing" -> PricingAgentReplies
      [] type = "seat_allocation" -> SeatAllocationReplies
      [] type = "competitor" -> CompetitorReplies
      [] OTHER -> {NoCall}

Result(type, success, decision, output) ==
    [agentType |-> type, success |-> success, decision |-> decision, output |-> output]

\* runObjectiveAgent
runObjectiveAgent(reply) ==
    IF Catches("objective", reply)
    THEN Result("objective", FALSE, <<"MEDIUM", "REVENUE_MAXIMIZATION">>,
                [objective |-> "REVENUE_MAXIMIZATION", confidence |-> "MEDIUM", urgency |-> "MEDIUM"])
    ELSE LET parsed == JsonParse(reply, {"objective", "confidence", "urgency"})
         IN  Result("objective", TRUE,
                    <<Or(parsed.confidence, "MEDIUM"), Or(parsed.objective, "REVENUE_MAXIMIZATION")>>,
                    [objective |-> Or(parsed.objective, "REVENUE_MAXIMIZATION"),
                     confidence |-> Or(parsed.confidence, "MEDIUM"),
                     urgency |-> Or(parsed.urgency, "MEDIUM")])

\* runForecastAgent
runForecastAgent(reply) ==
    IF Catches("forecast", reply)
    THEN Result("forecast", FALSE, <<"Demand Score", "0.5">>,
                [demandScore |-> "0.5", bookingVelocity |-> "STEADY", peakProbability |-> "0.3"])
    ELSE LET parsed == JsonParse(reply, {"demandScore", "bookingVelocity", "peakProbability"})
         IN  Result("forecast", TRUE, <<"Demand Score", Or(parsed.demandScore, "0.5")>>,
                    [demandScore |-> Or(parsed.demandScore, "0.5"),
                     bookingVelocity |-> Or(parsed.bookingVelocity, "STEADY"),
                     peakProbability |-> Or(parsed.peakProbability, "0.3")])

\* runPricingAgent; results is subAgentResults at the call
runPricingAgent(reply, results) ==
    IF Catches("pricing", reply)
    THEN Result("pricing", FALSE, <<"REVENUE_MAXIMIZATION", "1.0">>,
                [multiplier |-> "1.0", adjustmentType |-> "HOLD"])
    ELSE LET parsed == JsonParse(reply, {"multiplier", "adjustmentType"})
             objective == IF "objective" \in DOMAIN results
                          THEN Or(results["objective"].output.objective, "REVENUE_MAXIMIZATION")
                          ELSE "REVENUE_MAXIMIZATION"
         IN  Result("pricing", TRUE, <<objective, Or(parsed.multiplier, "1.0")>>,
                    [multiplier |-> Or(parsed.multiplier, "1.0"),
                     adjustmentType |-> Or(parsed.adjustmentType, "HOLD")])

\* runSeatAllocationAgent
runSeatAllocationAgent(reply) ==
    IF Catches("seat_allocation", reply)
    THEN Result("seat_allocation", FALSE, <<"MEDIUM", "HOLD">>,
                [action |-> "HOLD", confidence |-> "MEDIUM"])
    ELSE LET parsed == JsonParse(reply, {"action", "confidence"})
         IN  Result("seat_allocation", TRUE,
                    <<Or(parsed.confidence, "MEDIUM"), Or(parsed.action, "HOLD")>>,
                    [action |-> Or(parsed.action, "HOLD"),
                     confidence |-> Or(parsed.confidence, "MEDIUM")])

\* runCompetitorAgent
runCompetitorAgent(reply) ==
    IF Catches("competitor", reply)
    THEN Result("competitor", FALSE, <<"MEDIUM", "COMPETITIVE">>,
                [threatLevel |-> "MEDIUM", marketPosition |-> "COMPETITIVE"])
    ELSE LET parsed == JsonParse(reply, {"threatLevel", "marketPosition"})
         IN  Result("competitor", TRUE,
                    <<Or(parsed.threatLevel, "MEDIUM"), Or(parsed.marketPosition, "COMPETITIVE")>>,
                    [threatLevel |-> Or(parsed.threatLevel, "MEDIUM"),
                     marketPosition |-> Or(parsed.marketPosition, "COMPETITIVE")])

\* the switch of executeSubAgent
RunSubAgent(type, reply, results) ==
    CASE type = "objective" -> runObjectiveAgent(reply)
      [] type = "forecast" -> runForecastAgent(reply)
      [] type = "pricing" -> runPricingAgent(reply, results)
      [] type = "seat_allocation" -> runSeatAllocationAgent(reply)
      [] type = "competitor" -> runCompetitorAgent(reply)
      [] OTHER -> Result(type, FALSE, <<"Unknown agent type">>, [none |-> ""])

\* getAgentDisplayName
getAgentDisplayName(type) ==
    CASE type = "objective" -> "Objective Agent"
      [] type = "forecast" -> "Forecast Agent"
      [] type = "pricing" -> "Pricing Agent"
      [] type = "seat_allocation" -> "Seat Allocation Agent"
      [] type = "competitor" -> "Competitor Agent"
      [] OTHER -> type

(***************************************************************************)
(* The storage specification.  registerRoutes seeds a session for          *)
(* "ipl-season" on an empty database before the server listens.            *)
(***************************************************************************)
StorageInit ==
    /\ sessions = <<>>
    /\ buckets = <<>>
    /\ reasoningLogs = EmptyBag
    /\ listening = FALSE
    /\ opsLeft = MaxOps
    /\ pc = [p \in Procs |-> IF p = 1 THEN "cs_insert" ELSE "idle"]
    /\ loc = [p \in Procs |-> IF p = 1 THEN [IdleLoc EXCEPT !.op = "load", !.scenarioId = SeedScenario]
                              ELSE IdleLoc]
    /\ last = 1
    /\ preemptLeft = MaxPreemptions

\* the event loop resumes handler p; resuming another handler than the last
\* one while that one is still suspended uses up one of the explored switches
Resume(p) ==
    /\ last = p \/ pc[last] = "idle" \/ preemptLeft > 0
    /\ last' = p
    /\ preemptLeft' = IF last = p \/ pc[last] = "idle" THEN preemptLeft ELSE preemptLeft - 1

StorageNext ==
    \E p \in Procs :
      /\ Resume(p)
      /\
        \/ LoadScenario(p)
        \/ CreateSessionInsert(p)
        \/ CreateSessionBucket(p)
        \/ CreateSessionRevenue(p)
        \/ Respond(p)
        \/ Book(p)
        \/ BookSelect(p)
        \/ BookUpdateSold(p)
        \/ BookSelectSession(p)
        \/ BookUpdateRevenue(p)
        \/ Orchestrate(p)
        \/ RunOrchestration(p)
        \/ RoGetBuckets(p)
        \/ RoForecast(p)
        \/ RoPricing(p)
        \/ RoWritePrice(p)
        \/ RoSeatAllocation(p)
        \/ RoCompetitor(p)
        \/ Chat(p)
        \/ ChatGetSession(p)
        \/ ChatGetBuckets(p)
        \/ ChatProvider(p)
        \/ ChatUpdateSold(p)
        \/ ChatUpdateRevenue(p)

(***************************************************************************)
(* The orchestrator specification: orchestrate() on one OrchestratorAgent. *)
(* onLog is the callback given to the constructor; onLogCalls are its      *)
(* invocations during the current call of orchestrate().                   *)
(***************************************************************************)
VARIABLES
    oPc,              \* where orchestrate() is
    roundsLeft,       \* calls of orchestrate() the model may still make
    planReply,        \* what the provider answered to the planning prompt
    plan,             \* the plan generatePlan returned
    sortedTasks,      \* the plan's tasks sorted by priority
    cursor,           \* the position of the for loop in sortedTasks
    subAgentResults,  \* this.subAgentResults: agent type -> result
    a2aTrace,         \* this.a2aTrace
    onLogCalls,       \* invocations of onLog in this call
    executed,         \* positions of sortedTasks that executeSubAgent ran for
    threw,            \* positions of sortedTasks whose run*Agent took its catch block
    lastReply,        \* the provider's reply to the latest call of a run*Agent
    returned          \* the OrchestrationResult of this call, once it has returned

orchVars ==
    <<oPc, roundsLeft, planReply, plan, sortedTasks, cursor, subAgentResults, a2aTrace,
      onLogCalls, executed, threw, lastReply, returned>>

EmptyMap == [t \in {} |-> Result("", FALSE, <<>>, [none |-> ""])]

NoPlan == [reasoning |-> "", strategy |-> "", tasks |-> <<>>]

NoReturn ==
    [plan |-> NoPlan, results |-> EmptyMap, a2aTrace |-> <<>>,
     finalOutcome |-> [pricingApplied |-> FALSE, allocationChanged |-> FALSE,
                       agentsRun |-> 0, successCount |-> 0]]

OrchInit ==
    /\ oPc = "idle"
    /\ roundsLeft = MaxRounds
    /\ planReply = "none"
    /\ plan = NoPlan
    /\ sortedTasks = <<>>
    /\ cursor = 0
    /\ subAgentResults = EmptyMap
    /\ a2aTrace = <<>>
    /\ onLogCalls = <<>>
    /\ executed = {}
    /\ threw = {}
    /\ lastReply = NoCall
    /\ returned = NoReturn

\* orchestrate(), up to the call of generatePlan
OrchestrateBegin ==
    /\ oPc \in {"idle", "returned"}
    /\ roundsLeft > 0
    /\ roundsLeft' = roundsLeft - 1
    /\ a2aTrace' = <<>>
    /\ subAgentResults' = EmptyMap
    /\ onLogCalls' = <<>>
    /\ executed' = {}
    /\ threw' = {}
    /\ lastReply' = NoCall
    /\ planReply' = "none"
    /\ plan' = NoPlan
    /\ sortedTasks' = <<>>
    /\ cursor' = 0
    /\ oPc' = "plan"
    /\ returned' = NoReturn

\* generatePlan: the provider call or JSON.parse throws, and the catch block
\* returns the default plan
GeneratePlanCatch ==
    /\ oPc = "plan"
    /\ planReply' = "throws"
    /\ plan' = getDefaultPlan
    /\ oPc' = "log_plan"
    /\ UNCHANGED <<roundsLeft, sortedTasks, cursor, subAgentResults, a2aTrace, onLogCalls,
                   executed, threw, lastReply, returned>>

\* generatePlan: the reply parses, and its tasks are mapped one by one
GeneratePlanParsed ==
    /\ oPc = "plan"
    /\ \E n \in 0..MaxTasks : \E rawTasks \in RawPlans(n) : plan' = PlanFromReply(rawTasks)
    /\ planReply' = "json"
    /\ oPc' = "log_plan"
    /\ UNCHANGED <<roundsLeft, sortedTasks, cursor, subAgentResults, a2aTrace, onLogCalls,
                   executed, threw, lastReply, returned>>

\* orchestrate(): the [PLAN] entry, then the sort
LogPlan ==
    /\ oPc = "log_plan"
    /\ onLogCalls' = Append(onLogCalls,
                            [agentName |-> "Orchestrator Agent",
                             decision |-> <<"[PLAN]", plan.strategy, Len(plan.tasks)>>])
    /\ sortedTasks' = SortByPriority(plan.tasks)
    /\ cursor' = 1
    /\ oPc' = "loop"
    /\ UNCHANGED <<roundsLeft, planReply, plan, subAgentResults, a2aTrace, executed, threw,
                   lastReply, returned>>

\* canExecute that also asks every dependency to have succeeded
canExecuteSucceeded(task, results) ==
    \A dep \in task.dependsOn : dep \in DOMAIN results /\ results[dep].success

\* canExecute that asks whether any dependency has a result
canExecuteSome(task, results) ==
    task.dependsOn = {} \/ \E dep \in task.dependsOn : dep \in DOMAIN results

\* task.dependsOn.every(dep => this.subAgentResults.has(dep))
canExecute(task, results) == \A dep \in task.dependsOn : dep \in DOMAIN results

\* a loop body that records the request before it tests canExecute
SkipTaskAfterRequest ==
    /\ oPc = "loop"
    /\ cursor <= Len(sortedTasks)
    /\ ~canExecute(sortedTasks[cursor], subAgentResults)
    /\ a2aTrace' = Append(a2aTrace,
                          [from |-> "orchestrator", to |-> sortedTasks[cursor].agentType,
                           type |-> "request", context |-> {}])
    /\ cursor' = cursor + 1
    /\ UNCHANGED <<oPc, roundsLeft, planReply, plan, sortedTasks, subAgentResults,
                   onLogCalls, executed, threw, lastReply, returned>>

\* the loop body when canExecute is false: warn and continue
SkipTask ==
    /\ oPc = "loop"
    /\ cursor <= Len(sortedTasks)
    /\ ~canExecute(sortedTasks[cursor], subAgentResults)
    /\ cursor' = cursor + 1
    /\ UNCHANGED <<oPc, roundsLeft, planReply, plan, sortedTasks, subAgentResults, a2aTrace,
                   onLogCalls, executed, threw, lastReply, returned>>

\* gatherContext: the outputs of the task's dependencies that have a result
gatherContext(task, results) == task.dependsOn \cap DOMAIN results

\* the loop body when canExecute is true: executeSubAgent, then the result
\* is stored under the task's agent type
ExecuteSubAgent ==
    /\ oPc = "loop"
    /\ cursor <= Len(sortedTasks)
    /\ canExecute(sortedTasks[cursor], subAgentResults)
    /\ LET task == sortedTasks[cursor]
       IN  \E reply \in RepliesFor(task.agentType) :
             LET result == RunSubAgent(task.agentType, reply, subAgentResults)
             IN  /\ a2aTrace' = a2aTrace \o
                       << [from |-> "orchestrator", to |-> task.agentType, type |-> "request",
                           context |-> gatherContext(task, subAgentResults)],
                          [from |-> task.agentType, to |-> "orchestrator", type |-> "response",
                           context |-> {}] >>
                 /\ onLogCalls' = Append(onLogCalls,
                                         [agentName |-> getAgentDisplayName(task.agentType),
                                          decision |-> result.decision])
                 /\ subAgentResults' =
                       [t \in DOMAIN subAgentResults \cup {task.agentType} |->
                          IF t = task.agentType THEN result ELSE subAgentResults[t]]
                 /\ threw' = IF Catches(task.agentType, reply) THEN threw \cup {cursor} ELSE threw
                 /\ lastReply' = reply
    /\ executed' = executed \cup {cursor}
    /\ cursor' = cursor + 1
    /\ UNCHANGED <<oPc, roundsLeft, planReply, plan, sortedTasks, returned>>

\* computeFinalOutcome
computeFinalOutcome(results) ==
    [pricingApplied |-> /\ "pricing" \in DOMAIN results
                        /\ results["pricing"].success
                        /\ results["pricing"].output.adjustmentType # "HOLD",
     allocationChanged |-> /\ "seat_allocation" \in DOMAIN results
                           /\ results["seat_allocation"].success
                           /\ results["seat_allocation"].output.action # "HOLD",
     agentsRun |-> Cardinality(DOMAIN results),
     successCount |-> Cardinality({t \in DOMAIN results : results[t].success})]

\* orchestrate(): after the loop
OrchestrateReturn ==
    /\ oPc = "loop"
    /\ cursor > Len(sortedTasks)
    /\ returned' = [plan |-> plan, results |-> subAgentResults, a2aTrace |-> a2aTrace,
                    finalOutcome |-> computeFinalOutcome(subAgentResults)]
    /\ oPc' = "returned"
    /\ UNCHANGED <<roundsLeft, planReply, plan, sortedTasks, cursor, subAgentResults, a2aTrace,
                   onLogCalls, executed, threw, lastReply>>

OrchNext ==
    \/ OrchestrateBegin
    \/ GeneratePlanCatch
    \/ GeneratePlanParsed
    \/ LogPlan
    \/ SkipTask
    \/ ExecuteSubAgent
    \/ OrchestrateReturn

vars == <<storageVars, orchVars>>

Init == StorageInit /\ OrchInit

Next == StorageNext /\ UNCHANGED orchVars

NextOrch == OrchNext /\ UNCHANGED storageVars

Spec == Init /\ [][Next]_vars

SpecOrch == Init /\ [][NextOrch]_vars

(***************************************************************************)
(* Properties of the orchestrator.                                         *)
(***************************************************************************)
InRound == oPc \in {"loop", "returned"}

TypesOf(positions) == {sortedTasks[i].agentType : i \in positions}

\* every dependency of the task at position i is the type of a task that
\* was executed at an earlier position
DependenciesMet(i) ==
    \A d \in sortedTasks[i].dependsOn :
        \E j \in executed : j < i /\ sortedTasks[j].agentType = d

\* C6: in one round a task is executed if and only if every type in its
\* dependsOn has a result when it is reached, that is, was executed at an
\* earlier position of the sorted order; a skipped task gets no result and is
\* not revisited (every executed position exchanged exactly one request and
\* one response), and the loop reaches the end of the list.
C6_DependencySkip ==
    InRound =>
      /\ executed \subseteq 1..(cursor - 1)
      /\ \A i \in 1..(cursor - 1) : i \in executed <=> DependenciesMet(i)
      /\ DOMAIN subAgentResults = TypesOf(executed)
      /\ Len(a2aTrace) = 2 * Cardinality(executed)
      /\ \A i \in 1..(cursor - 1) \ executed :
            \A k \in 1..Len(a2aTrace) :
               a2aTrace[k].type = "request" /\ a2aTrace[k].to = sortedTasks[i].agentType
                  => sortedTasks[i].agentType \in TypesOf(executed)
      /\ oPc = "returned" =>
            /\ cursor = Len(sortedTasks) + 1
            /\ DOMAIN returned.results = TypesOf(executed)

\* a round returned in which the first task was skipped because its
\* dependency is absent from the plan, the second because its dependency was
\* skipped, and the third was executed
C6_Witness ==
    /\ oPc = "returned"
    /\ Len(sortedTasks) = 3
    /\ executed = {3}
    /\ sortedTasks[1].agentType = "forecast"
    /\ sortedTasks[1].dependsOn = {"objective"}
    /\ sortedTasks[2].agentType = "pricing"
    /\ sortedTasks[2].dependsOn = {"forecast"}
    /\ DOMAIN returned.results = {sortedTasks[3].agentType}

DependsOf(type) == {t.dependsOn : t \in {plan.tasks[i] : i \in 1..Len(plan.tasks)} \cap
                                        {u \in {plan.tasks[i] : i \in 1..Len(plan.tasks)} :
                                           u.agentType = type}}

PlanIsUsed == planReply = "throws" /\ oPc \in {"log_plan", "loop", "returned"}

FiveTasksOnePerType ==
    /\ Len(plan.tasks) = 5
    /\ {plan.tasks[i].agentType : i \in 1..5} = SubAgentTypes
    /\ oPc \in {"loop", "returned"} =>
          {sortedTasks[i] : i \in 1..Len(sortedTasks)} = {plan.tasks[i] : i \in 1..5}

\* C7: when plan generation throws, the plan of the round has five tasks,
\* one per type: objective without dependency, forecast on objective,
\* pricing on objective and forecast, seat_allocation on pricing, and
\* competitor without dependency.
C7_DefaultPlan ==
    PlanIsUsed =>
      /\ FiveTasksOnePerType
      /\ DependsOf("objective") = {{}}
      /\ DependsOf("forecast") = {{"objective"}}
      /\ DependsOf("competitor") = {{}}
      /\ DependsOf("pricing") = {{"objective", "forecast"}}
      /\ DependsOf("seat_allocation") = {{"pricing"}}

\* C7 as stated: competitor depends on objective as forecast does
C7_AsStated ==
    PlanIsUsed =>
      /\ FiveTasksOnePerType
      /\ DependsOf("objective") = {{}}
      /\ DependsOf("forecast") = {{"objective"}}
      /\ DependsOf("competitor") = {{"objective"}}
      /\ DependsOf("pricing") = {{"objective", "forecast"}}
      /\ DependsOf("seat_allocation") = {{"pricing"}}

\* the fallback plan was used for a whole round, and all five tasks ran
C7_Witness ==
    /\ planReply = "throws"
    /\ oPc = "returned"
    /\ Cardinality(executed) = 5

\* the default outputs of the five task types
DefaultOutputOf(type) ==
    CASE type = "objective" ->
           [objective |-> "REVENUE_MAXIMIZATION", confidence |-> "MEDIUM", urgency |-> "MEDIUM"]
      [] type = "forecast" ->
           [demandScore |-> "0.5", bookingVelocity |-> "STEADY", peakProbability |-> "0.3"]
      [] type = "pricing" -> [multiplier |-> "1.0", adjustmentType |-> "HOLD"]
      [] type = "seat_allocation" -> [action |-> "HOLD", confidence |-> "MEDIUM"]
      [] type = "competitor" -> [threatLevel |-> "MEDIUM", marketPosition |-> "COMPETITIVE"]

\* the position at which the stored result of the type was produced
LastExecuted(type) == Max({i \in executed : sortedTasks[i].agentType = type})

C9_FailureIsRecorded ==
    InRound =>
      /\ threw \subseteq executed
      /\ \A i \in threw :
            LET type == sortedTasks[i].agentType
            IN  /\ type \in DOMAIN subAgentResults
                /\ LastExecuted(type) = i =>
                      /\ subAgentResults[type].success = FALSE
                      /\ subAgentResults[type].output = DefaultOutputOf(type)
      /\ \A i \in 1..(cursor - 1) : DependenciesMet(i) => i \in executed
      /\ oPc = "returned" =>
            /\ cursor = Len(sortedTasks) + 1
            /\ \A i \in threw :
                  LastExecuted(sortedTasks[i].agentType) = i =>
                     returned.results[sortedTasks[i].agentType].success = FALSE

\* a call of orchestrate() that has not returned can take its next step
C9_NeverStuck == oPc \in {"plan", "log_plan", "loop"} => ENABLED NextOrch

\* every step of the loop moves to the next task or returns
C9_LoopAdvances == oPc = "loop" => (cursor' = cursor + 1 /\ oPc' = "loop") \/ oPc' = "returned"

\* C9: whichever provider calls of a round throw, orchestrate() is never
\* stuck and its loop advances to the return: each failing task is recorded
\* with success = false and the default output of its type, every later task
\* is still processed, and a task whose dependencies ran is executed even
\* when they failed.
C9_FailureNeverAborts ==
    /\ [](C9_FailureIsRecorded /\ C9_NeverStuck)
    /\ [][C9_LoopAdvances]_vars

\* the fallback plan ran with objective and forecast throwing, and pricing,
\* which depends on both, was executed all the same
C9_Witness ==
    /\ oPc = "returned"
    /\ planReply = "throws"
    /\ threw = {1, 2}
    /\ Cardinality(executed) = 5
    /\ returned.results["pricing"].success
    /\ ~returned.results["objective"].success

(***************************************************************************)
(* Properties of the storage layer.                                        *)
(***************************************************************************)
BucketIds == 1..Len(buckets)

\* C1: every ECONOMY bucket is priced within [0.80, 1.20] x basePrice and
\* every BUSINESS bucket at most 1.25 x basePrice, whatever multipliers the
\* provider returned to the rounds run so far.
C1_PriceBound ==
    \A i \in BucketIds :
       LET b == buckets[i]
       IN  /\ ~IsNaN(b.price)
           /\ IF b.class = "ECONOMY"
              THEN 4 * b.basePrice <= 5 * b.price /\ 5 * b.price <= 6 * b.basePrice
              ELSE 4 * b.price <= 5 * b.basePrice

\* C2: every bucket whose price is a number, BUSINESS included, is priced
\* within 20% of its basePrice after the rounds run so far.
C2_WithinTwentyPercent ==
    \A i \in BucketIds :
       LET b == buckets[i]
       IN  ~IsNaN(b.price) =>
              /\ 4 * b.basePrice <= 5 * b.price
              /\ 5 * b.price <= 6 * b.basePrice

\* C3: every bucket has 0 <= sold <= allocated in every reachable state.
C3_Capacity == \A i \in BucketIds : 0 <= buckets[i].sold /\ buckets[i].sold <= buckets[i].allocated

RECURSIVE RevenueTo(_, _)
RevenueTo(rows, n) ==
    IF n = 0 THEN 0
    ELSE NumAdd(RevenueTo(rows, n - 1), NumMul(rows[n].price, rows[n].sold))

\* the sum of price x sold over the rows of the session
BucketRevenue(sid) == RevenueTo(GetBuckets(sid), Len(GetBuckets(sid)))

\* handler p has run a round that wrote its prices and is about to respond,
\* and no other handler is in flight
RoundCompleted(p) ==
    /\ pc[p] = "respond"
    /\ loc[p].op \in {"orchestrate", "book"}
    /\ loc[p].priced
    /\ \A q \in Procs \ {p} : pc[q] = "idle"

\* C4: when a round has completed, the session's totalRevenue is the sum of
\* price x sold over its buckets at the new prices.
C4_RevenueRecomputed ==
    \A p \in Procs :
       RoundCompleted(p) =>
          sessions[loc[p].sessionId].totalRevenue = BucketRevenue(loc[p].sessionId)

\* clamp(M, 0.80, 1.20) on a JS number
C5_Clamp(M) ==
    IF M.k = "inf" THEN <<6, 5>>
    ELSE IF FracLeq(M.f, <<4, 5>>) THEN <<4, 5>>
         ELSE IF FracLeq(<<6, 5>>, M.f) THEN <<6, 5>> ELSE M.f

\* round(basePrice x clamp(M)) for ECONOMY and
\* round(basePrice x min(1.25, clamp(M) x 1.05)) for BUSINESS; NaN for M NaN
C5_Expected(basePrice, class, M) ==
    IF M.k = "nan" THEN NaN
    ELSE LET c == C5_Clamp(M)
             scaled == <<c[1] * 21, c[2] * 20>>
             m == IF class = "ECONOMY" THEN c
                  ELSE IF FracLeq(<<5, 4>>, scaled) THEN <<5, 4>> ELSE scaled
         IN  (2 * basePrice * m[1] + m[2]) \div (2 * m[2])

\* the row a step of handler p's write loop writes
WrittenRow(p) == loc[p].currentBuckets[loc[p].idx]

C5_WriteStep ==
    \A p \in Procs :
       pc[p] = "ro_write" /\ loc'[p].idx = loc[p].idx + 1 =>
          buckets'[WrittenRow(p).id].price =
             C5_Expected(buckets[WrittenRow(p).id].basePrice, buckets[WrittenRow(p).id].class,
                         loc[p].combined)

\* C5: the price a round writes is a function of the bucket's basePrice, its
\* class and the round's raw multiplier M alone: round(basePrice x clamp(M))
\* for ECONOMY, round(basePrice x min(1.25, clamp(M) x 1.05)) for BUSINESS,
\* whatever the price before the write, so a second round with the same M
\* leaves the price of the first.
C5_NoCompounding == [][C5_WriteStep]_vars

\* a round with M = 1.1 has rewritten an ECONOMY bucket and a BUSINESS bucket
\* that an earlier round with the same M had already moved off their base
\* price, and the prices are those of the earlier round
C5_Witness ==
    \E p \in Procs :
       /\ loc[p].priced
       /\ loc[p].combined = [k |-> "fin", f |-> <<11, 10>>]
       /\ pc[p] = "ro_seat"
       /\ \E i, j \in 1..Len(loc[p].currentBuckets) :
             LET e == loc[p].currentBuckets[i]
                 b == loc[p].currentBuckets[j]
             IN  /\ e.class = "ECONOMY" /\ b.class = "BUSINESS"
                 /\ e.price # e.basePrice /\ b.price # b.basePrice
                 /\ buckets[e.id].price = e.price /\ buckets[b.id].price = b.price
                 /\ 10 * e.price = 11 * e.basePrice
                 /\ 1000 * b.price = 1155 * b.basePrice

\* C8: every agent a round has run has an entry in the audit log of the
\* round's session, whether it succeeded or fell back to its default.
C8_AuditNeverSkipped ==
    \A p \in Procs :
       \A agent \in loc[p].ran :
          /\ agent \in loc[p].logged
          /\ \E e \in BagToSet(reasoningLogs) :
                e.sessionId = loc[p].sessionId /\ e.agentName = agent

\* handler p is in the middle of a booking or of a round: it has made the
\* first read of the operation and not yet its last write to the ledger
InLedgerOperation(p) ==
    pc[p] \in {"bt_sold", "bt_session", "bt_revenue",
               "ro_buckets", "ro_forecast", "ro_pricing", "ro_write"}

\* C10: no two handlers are in the middle of a booking or a round of the
\* same session at the same time.
C10_Serialized ==
    \A p, q \in Procs :
       p # q /\ InLedgerOperation(p) /\ InLedgerOperation(q) =>
          loc[p].sessionId # loc[q].sessionId

\* the ledger: the three tables
ledger == <<sessions, buckets, reasoningLogs>>

\* handler p's booking must be refused: no bucket of its session has the
\* code, or the bucket has fewer than quantity seats left
C11_MustReject(p) ==
    LET rows == {i \in BucketIds : buckets[i].sessionId = loc[p].sessionId
                                     /\ buckets[i].code = loc[p].bucketCode}
    IN  \A i \in rows : buckets[i].sold + loc[p].quantity > buckets[i].allocated

C11_Step ==
    \A p \in Procs :
       /\ pc[p] = "bt_select" /\ pc'[p] # pc[p] /\ C11_MustReject(p) =>
             /\ pc'[p] = "respond"
             /\ loc'[p].status = 400
             /\ loc'[p].ran = {}
             /\ UNCHANGED ledger
       /\ pc[p] = "respond" /\ loc[p].op = "book" /\ loc[p].status = 400 /\ pc'[p] # pc[p] =>
             /\ pc'[p] = "idle"
             /\ UNCHANGED ledger

\* C11: a booking for more seats than the bucket has left, or for a code
\* the session does not have, is answered with a failure; the handler's steps
\* change no bucket, no session row and no log entry, and it runs no round.
C11_RejectedBookingNoEffect == [][C11_Step]_vars

\* a booking of allocated - sold + 1 seats was refused
C11_Witness ==
    \E p \in Procs :
       /\ pc[p] = "respond" /\ loc[p].op = "book" /\ loc[p].status = 400
       /\ \E i \in BucketIds :
             /\ buckets[i].sessionId = loc[p].sessionId
             /\ buckets[i].code = loc[p].bucketCode
             /\ loc[p].quantity = buckets[i].allocated - buckets[i].sold + 1

\* the write of sold by handler p's booking
C12_SoldWrite(p) == pc[p] = "bt_sold" /\ pc'[p] = "bt_session"

\* the write of totalRevenue by handler p's booking
C12_RevenueWrite(p) == pc[p] = "bt_revenue" /\ pc'[p] = "ro_session"

C12_Step ==
    \A p \in Procs :
       /\ C12_SoldWrite(p) =>
             /\ Len(buckets') = Len(buckets)
             /\ \A i \in BucketIds :
                   /\ buckets'[i].sold =
                         IF i = loc[p].targetBucket.id
                         THEN buckets[i].sold + loc[p].quantity
                         ELSE buckets[i].sold
                   /\ buckets'[i].allocated = buckets[i].allocated
                   /\ buckets'[i].basePrice = buckets[i].basePrice
             /\ sessions' = sessions
       /\ C12_RevenueWrite(p) =>
             /\ buckets' = buckets
             /\ sessions'[loc[p].sessionId].totalRevenue =
                   NumAdd(sessions[loc[p].sessionId].totalRevenue,
                          NumMul(loc[p].quantity, loc[p].targetBucket.price))

\* C12: a successful booking adds exactly quantity to the sold of the named
\* bucket and exactly quantity x (the bucket's price when it was read) to the
\* session's totalRevenue, and changes no other sold, no allocated and no
\* basePrice.
C12_BookingFrame == [][C12_Step]_vars

\* the four agents of a round of runOrchestration
RoundAgents == {"Forecast Agent", "Pricing Agent", "Seat Allocation Agent", "Competitor Agent"}

\* C13: when the book handler is about to send its success response, the
\* round it triggered for the booking's session has run, after the booking's
\* writes and before the response.
C13_BookingTriggersRound ==
    \A p \in Procs :
       pc[p] = "respond" /\ loc[p].op = "book" /\ loc[p].status = 200 =>
          loc[p].ran = RoundAgents

RECURSIVE SoldTo(_, _)
SoldTo(rows, n) == IF n = 0 THEN 0 ELSE SoldTo(rows, n - 1) + rows[n].sold

RECURSIVE AllocatedTo(_, _)
AllocatedTo(rows, n) == IF n = 0 THEN 0 ELSE AllocatedTo(rows, n - 1) + rows[n].allocated

\* handler p has made the writes of a booking, or has completed a round, and
\* no other handler is in flight
C14_AfterMutation(p) ==
    \/ RoundCompleted(p)
    \/ /\ pc[p] = "ro_session" /\ loc[p].op = "book"
       /\ \A q \in Procs \ {p} : pc[q] = "idle"

\* C14: after each booking and after each round the session's loadFactor is
\* (sum of sold) / (sum of allocated) and its totalRevenue is the sum of
\* price x sold over the session's buckets.
C14_AggregatesRecomputed ==
    \A p \in Procs :
       C14_AfterMutation(p) =>
          LET sid == loc[p].sessionId
              rows == GetBuckets(sid)
          IN  /\ sessions[sid].loadFactor * AllocatedTo(rows, Len(rows)) = SoldTo(rows, Len(rows))
              /\ sessions[sid].totalRevenue = BucketRevenue(sid)

\* handler p is in a round (or has just left it) whose pricing step has
\* not produced a multiplier
C15_InRoundWithoutPricing(p) ==
    /\ pc[p] \in {"ro_session", "ro_buckets", "ro_forecast", "ro_pricing", "ro_write",
                  "ro_seat", "ro_competitor", "respond"}
    /\ loc[p].op \in {"orchestrate", "book"}

C15_Step ==
    \A p \in Procs :
       C15_InRoundWithoutPricing(p) /\ pc'[p] # pc[p] /\ ~loc'[p].priced /\ pc'[p] # "ro_session" =>
          /\ buckets' = buckets
          /\ sessions' = sessions

\* C15: in a round whose pricing step throws, finds no JSON or fails to
\* parse it, no step of the round changes a bucket (price, sold, allocated)
\* or the session row (totalRevenue, loadFactor).
C15_PricingFailureFrame == [][C15_Step]_vars

\* a round whose pricing step logged a parse error has ended, on a session
\* whose prices an earlier round had moved off their base
C15_Witness ==
    \E p \in Procs :
       /\ pc[p] = "respond" /\ loc[p].op = "orchestrate" /\ ~loc[p].priced
       /\ "Pricing Agent" \in loc[p].logged
       /\ \E i \in BucketIds :
             buckets[i].sessionId = loc[p].sessionId /\ buckets[i].price # buckets[i].basePrice

ActiveSessions == {i \in 1..Len(sessions) : sessions[i].active}

\* C16: in every reachable state, two interleaved loads included, at most
\* one session row has active = TRUE.
C16_AtMostOneActive == Cardinality(ActiveSessions) <= 1

\* generatePlan has returned a plan built from a reply that parsed
PlanParsed == planReply = "json" /\ oPc \in {"log_plan", "loop", "returned"}

\* C17: a plan reply that parses but yields no task gives the default plan
\* with its five tasks, never a plan with zero tasks.
C17_EmptyPlanIsFailure ==
    PlanParsed =>
       /\ plan.tasks # <<>>
       /\ oPc = "returned" => returned.plan.tasks # <<>>

\* C18: a task of the provider's plan whose agentType is none of the five
\* known types is never executed: it leaves no task result, no trace
\* message and no audit entry, and the outcome summary does not count it.
C18_UnknownTypeIgnored ==
    PlanParsed =>
       /\ \A i \in executed : sortedTasks[i].agentType \in SubAgentTypes
       /\ DOMAIN subAgentResults \subseteq SubAgentTypes
       /\ \A i \in 1..Len(a2aTrace) :
             a2aTrace[i].from # UnknownAgent /\ a2aTrace[i].to # UnknownAgent
       /\ \A i \in 1..Len(onLogCalls) :
             onLogCalls[i].agentName # getAgentDisplayName(UnknownAgent)
       /\ oPc = "returned" =>
             returned.finalOutcome.agentsRun =
                Cardinality(DOMAIN returned.results \cap SubAgentTypes)

\* the result stored for the task that executeSubAgent ran last
LastResult == subAgentResults[sortedTasks[Max(executed)].agentType]

\* C19: a task whose provider call returned text without a parseable JSON
\* object, empty text included, has its type's whole-task default as its
\* result, with success = FALSE.
C19_MalformedIsFailure ==
    InRound /\ executed # {} /\ lastReply.kind \in {"notjson", "empty"} =>
       /\ LastResult.success = FALSE
       /\ LastResult.output = DefaultOutputOf(LastResult.agentType)

\* the value a field of the task output must have by the field-level rule:
\* the field's own default when the reply lacks it or gives it a value of
\* the wrong type, the returned value otherwise (each field's own default
\* is the value the whole-task default gives that field)
FieldOrDefault(type, parsed, f) ==
    IF parsed[f] = "" \/ parsed[f] = NotANumber THEN DefaultOutputOf(type)[f] ELSE parsed[f]

\* C20: a task whose provider call returned a JSON object has success =
\* TRUE, and each field of its output is the returned value, or the field's
\* own default where the value is absent or of the wrong type.
C20_FieldLevelDefaults ==
    InRound /\ executed # {} /\ lastReply.kind = "json" =>
       /\ LastResult.success = TRUE
       /\ \A f \in DOMAIN lastReply.obj :
             LastResult.output[f] = FieldOrDefault(LastResult.agentType, lastReply.obj, f)

\* positions of sortedTasks whose execution returned a result with success
Succeeded == {i \in executed : i \notin threw /\ sortedTasks[i].agentType \in SubAgentTypes}

\* C21: in the returned outcome pricingApplied holds exactly when the round
\* has a pricing result with success and an adjustment type other than
\* HOLD, allocationChanged likewise from the seat allocation result's
\* action, and the counts are the number of tasks executed and the number
\* of them that succeeded.
C21_FinalOutcome ==
    oPc = "returned" =>
       LET results == returned.results
           outcome == returned.finalOutcome
       IN  /\ outcome.pricingApplied <=>
                 /\ "pricing" \in DOMAIN results
                 /\ results["pricing"].success
                 /\ results["pricing"].output.adjustmentType # "HOLD"
           /\ outcome.allocationChanged <=>
                 /\ "seat_allocation" \in DOMAIN results
                 /\ results["seat_allocation"].success
                 /\ results["seat_allocation"].output.action # "HOLD"
           /\ outcome.agentsRun = Cardinality(executed)
           /\ outcome.successCount = Cardinality(Succeeded)

\* the locals l are those of a load request whose id names no scenario
InvalidLoad(l) == l.op = "load" /\ l.scenarioId \notin KnownScenarios

C22_Step ==
    \A p \in Procs :
       pc'[p] # pc[p] /\ (InvalidLoad(loc[p]) \/ InvalidLoad(loc'[p])) =>
          /\ sessions' = sessions
          /\ buckets' = buckets
          /\ pc'[p] = "respond" => loc'[p].status = 400

\* C22: a load request whose scenario id names no defined scenario changes
\* no session row (the active session stays active), inserts no bucket and
\* is answered with a failure status.
C22_InvalidScenarioRejected == [][C22_Step]_vars

C23_Step ==
    \A p \in Procs :
       pc'[p] # pc[p] =>
          /\ pc[p] = "idle" /\ loc'[p].op \in {"orchestrate", "book"} /\ ActiveSessions = {} =>
                /\ pc'[p] = "respond" /\ loc'[p].status = 404 /\ loc'[p].ran = {}
                /\ UNCHANGED ledger
          /\ pc[p] = "respond" /\ loc[p].op \in {"orchestrate", "book"} /\ loc[p].status = 404 =>
                pc'[p] = "idle" /\ UNCHANGED ledger
          /\ pc[p] = "ro_session" /\ loc[p].sessionId \notin ActiveSessions =>
                /\ pc'[p] = "respond" /\ loc'[p].ran = {}
                /\ UNCHANGED ledger

\* C23: with no active session an orchestrate or book request is answered
\* with a failure and changes no bucket, no session row and no log entry,
\* and no agent is called; runOrchestration for a session that is not
\* active likewise returns without a write or a call.
C23_NoActiveSessionNoOp == [][C23_Step]_vars

\* a request that found no active session is about to be answered
C23_Witness ==
    /\ \E p \in Procs :
          pc[p] = "respond" /\ loc[p].op \in {"orchestrate", "book"} /\ loc[p].status = 404
    /\ ActiveSessions = {}

\* sorted holds the tasks of the plan in ascending priority, tasks of equal
\* priority in the order of the plan: perm sends a position of sorted to
\* the position in the plan it came from
IsStableSortOf(sorted, tasks) ==
    /\ Len(sorted) = Len(tasks)
    /\ \E perm \in [1..Len(tasks) -> 1..Len(tasks)] :
          /\ \A i \in 1..Len(tasks) : sorted[i] = tasks[perm[i]]
          /\ \A i, j \in 1..Len(tasks) :
                i < j => /\ perm[i] # perm[j]
                         /\ sorted[i].priority <= sorted[j].priority
                         /\ sorted[i].priority = sorted[j].priority => perm[i] < perm[j]

\* the number of tasks executed at positions before i
ExecutedBefore(i) == Cardinality({j \in executed : j < i})

C24_Order ==
    InRound =>
       /\ IsStableSortOf(sortedTasks, plan.tasks)
       /\ cursor \in 1..(Len(sortedTasks) + 1)
       /\ executed \subseteq 1..(cursor - 1)
       /\ \A i \in executed :
             /\ a2aTrace[2 * ExecutedBefore(i) + 1].type = "request"
             /\ a2aTrace[2 * ExecutedBefore(i) + 1].to = sortedTasks[i].agentType
             /\ a2aTrace[2 * ExecutedBefore(i) + 2].type = "response"
             /\ a2aTrace[2 * ExecutedBefore(i) + 2].from = sortedTasks[i].agentType

C24_Step ==
    oPc = "loop" /\ oPc' \in {"loop", "returned"} =>
       /\ sortedTasks' = sortedTasks
       /\ cursor' # cursor => cursor' = cursor + 1 /\ executed' \in {executed, executed \cup {cursor}}
       /\ cursor' = cursor => executed' = executed
       /\ oPc' = "returned" => cursor = Len(sortedTasks) + 1

\* C24: in a round the tasks are visited once each, in ascending priority
\* and in plan order among equal priorities, and a task's request and
\* response are both in the trace before the request of any task visited
\* after it.
C24_ExecutionOrder == []C24_Order /\ [][C24_Step]_vars

\* a round returned whose plan lists a priority-2 task, then a priority-1
\* task, then a priority-2 task of another type: the three were executed in
\* the order second, first, third
C24_Witness ==
    /\ oPc = "returned"
    /\ Len(plan.tasks) = 3
    /\ plan.tasks[1].priority = 2 /\ plan.tasks[2].priority = 1 /\ plan.tasks[3].priority = 2
    /\ plan.tasks[1].agentType # plan.tasks[3].agentType
    /\ sortedTasks = <<plan.tasks[2], plan.tasks[1], plan.tasks[3]>>
    /\ executed = {1, 2, 3}

\* the number of requests the trace holds for tasks of the given type
RequestsTo(type) ==
    Cardinality({k \in 1..Len(a2aTrace) :
                    a2aTrace[k].type = "request" /\ a2aTrace[k].to = type})

C25_Trace ==
    InRound =>
       /\ Len(a2aTrace) = 2 * Cardinality(executed)
       /\ \A k \in 1..Len(a2aTrace) :
             IF k % 2 = 1
             THEN a2aTrace[k].type = "request" /\ a2aTrace[k].from = "orchestrator"
             ELSE /\ a2aTrace[k].type = "response" /\ a2aTrace[k].to = "orchestrator"
                  /\ a2aTrace[k].from = a2aTrace[k - 1].to
       /\ \A i \in 1..(cursor - 1) :
             RequestsTo(sortedTasks[i].agentType) =
                Cardinality({j \in executed : sortedTasks[j].agentType = sortedTasks[i].agentType})
       /\ \A i \in executed :
             /\ sortedTasks[i].agentType \in DOMAIN subAgentResults
             /\ subAgentResults[sortedTasks[i].agentType].agentType = sortedTasks[i].agentType

C25_Step ==
    oPc = "loop" /\ cursor' = cursor + 1 =>
       IF executed' # executed
       THEN /\ Len(a2aTrace') = Len(a2aTrace) + 2
            /\ SubSeq(a2aTrace', 1, Len(a2aTrace)) = a2aTrace
            /\ a2aTrace'[Len(a2aTrace) + 1].to = sortedTasks[cursor].agentType
            /\ sortedTasks[cursor].agentType \in DOMAIN subAgentResults'
       ELSE a2aTrace' = a2aTrace /\ subAgentResults' = subAgentResults

\* C25: the trace of a round holds, for each executed task in turn, one
\* request from the orchestrator followed by one response to it, and
\* nothing for a skipped task: its length is twice the number of executed
\* tasks, requests and responses alternate, and the result of an executed
\* task is stored under the task's type.
C25_MessageTrace == []C25_Trace /\ [][C25_Step]_vars

\* a round of three tasks returned with the second skipped: four messages
C25_Witness ==
    /\ oPc = "returned"
    /\ Len(sortedTasks) = 3
    /\ executed = {1, 3}
    /\ Len(returned.a2aTrace) = 4
    /\ sortedTasks[1].agentType # sortedTasks[3].agentType

\* the agent types whose stored result a run*Agent reads with
\* this.subAgentResults.get and puts into its prompt
ReadsResultsOf(type) ==
    CASE type = "forecast" -> {"objective"}
      [] type = "pricing" -> {"objective", "forecast", "competitor"}
      [] type = "seat_allocation" -> {"pricing", "forecast"}
      [] OTHER -> {}

\* the outputs a task of the given type observes when it is executed with
\* the given results stored: those gatherContext puts into its request and
\* those its run*Agent reads
ObservedOutputs(task, results) ==
    gatherContext(task, results) \cup (ReadsResultsOf(task.agentType) \cap DOMAIN results)

C26_Step ==
    oPc = "loop" /\ executed' # executed =>
       /\ ObservedOutputs(sortedTasks[cursor], subAgentResults) \subseteq sortedTasks[cursor].dependsOn
       /\ ObservedOutputs(sortedTasks[cursor], subAgentResults) \subseteq TypesOf(executed)

\* C26: the outputs a task observes when it is executed are outputs of
\* tasks it declares in dependsOn that were executed earlier in the same
\* round, never those of an undeclared task or of an earlier round.
C26_ContextIsolation == [][C26_Step]_vars

\* the write of sold by handler p's chat-completed booking
C27_ChatSoldWrite(p) == pc[p] = "pc_sold" /\ pc'[p] = "pc_revenue"

\* the write of totalRevenue by handler p's booking, book endpoint or chat
C27_AnyRevenueWrite(p) == C12_RevenueWrite(p) \/ (pc[p] = "pc_revenue" /\ pc'[p] = "respond")

C27_Step ==
    \A p \in Procs :
       /\ C12_SoldWrite(p) \/ C27_ChatSoldWrite(p) =>
             LET bucket == buckets[loc[p].targetBucket.id]
             IN  /\ buckets'[loc[p].targetBucket.id].sold >= bucket.sold + loc[p].quantity
                 /\ bucket.sold + loc[p].quantity <= bucket.allocated
       /\ C27_AnyRevenueWrite(p) /\ ~IsNaN(loc[p].targetBucket.price)
          /\ ~IsNaN(sessions[loc[p].sessionId].totalRevenue) =>
             sessions'[loc[p].sessionId].totalRevenue >=
                sessions[loc[p].sessionId].totalRevenue
                + OrZero(loc[p].targetBucket.price) * loc[p].quantity

\* C27: under every interleaving, a booking's write of sold keeps the seats
\* of every booking committed before it (the new sold is at least the
\* current sold plus its quantity), the seats booked never exceed
\* allocated, and its write of totalRevenue keeps the fares already added.
C27_NoLostBooking == [][C27_Step]_vars

\* handler p is inside runOrchestration
InRoundOf(p) ==
    pc[p] \in {"ro_session", "ro_buckets", "ro_forecast", "ro_pricing", "ro_write",
               "ro_seat", "ro_competitor"}

C28_Step ==
    /\ Len(buckets') >= Len(buckets)
    /\ \A i \in BucketIds :
          /\ buckets'[i].id = buckets[i].id
          /\ buckets'[i].sessionId = buckets[i].sessionId
          /\ buckets'[i].code = buckets[i].code
          /\ buckets'[i].class = buckets[i].class
          /\ buckets'[i].basePrice = buckets[i].basePrice
          /\ buckets'[i].allocated = buckets[i].allocated
    /\ \A p \in Procs :
          InRoundOf(p) /\ (pc'[p] # pc[p] \/ loc'[p] # loc[p]) =>
             /\ Len(buckets') = Len(buckets)
             /\ \A i \in BucketIds :
                   /\ buckets'[i].sold = buckets[i].sold
                   /\ buckets'[i].price # buckets[i].price =>
                         buckets[i].sessionId = loc[p].sessionId

\* C28: a step of a repricing round changes nothing in the buckets but the
\* price of rows of its own session, also when a booking has written sold
\* since the round read the buckets; and no step of any operation changes
\* the basePrice, allocated, code or class of an existing row.
C28_RepricingFrame == [][C28_Step]_vars

\* a round has written its prices over rows whose sold a booking changed
\* after the round had read them
C28_Witness ==
    \E p \in Procs :
       /\ pc[p] = "ro_seat" /\ loc[p].priced
       /\ \E k \in 1..Len(loc[p].currentBuckets) :
             LET snapshot == loc[p].currentBuckets[k]
             IN  /\ buckets[snapshot.id].sold # snapshot.sold
                 /\ buckets[snapshot.id].price # snapshot.price

\* the last step of createSession in handler p: the revenue update and the
\* log entry, after which the session is returned
SessionCreated(p) == pc[p] = "cs_revenue" /\ pc'[p] = "respond"

\* the seeding invariant of the session with the given id, whose rows were
\* seeded for the given scenario id
Seeded(sid, scenarioId) ==
    LET rows == GetBuckets(sid)
    IN  /\ Len(rows) = 6
        /\ \A i \in 1..6 :
              /\ rows[i].code = initialBuckets[i].code
              /\ rows[i].price = rows[i].basePrice
              /\ 0 <= rows[i].sold /\ rows[i].sold <= rows[i].allocated
              /\ rows[i].sold > 0 => \A j \in 1..(i - 1) : rows[j].sold = rows[j].allocated
        /\ AllocatedTo(rows, 6) = totalSeats
        /\ \E variance \in VarianceDraws :
              SoldTo(rows, 6) =
                 SeatsSold(ExpectedOccupancyToday(ScenarioOrFirst(scenarioId)), variance)
        /\ sessions[sid].totalRevenue = BucketRevenue(sid)

\* C29: when createSession returns, the new session has its six buckets
\* with 192 seats allocated, each at its base price with 0 <= sold <=
\* allocated, filled cheapest first up to the computed seatsSold, and its
\* totalRevenue is the sum of sold x price.
C29_Step ==
    \A p \in Procs : SessionCreated(p) => Seeded(loc[p].sessionId, loc[p].scenarioId)'

C29_SeedingInvariant == [][C29_Step]_vars

\* handler p takes a step that writes a bucket or totalRevenue for a
\* booking or a round
LedgerWrite(p) ==
    /\ pc[p] \in {"bt_sold", "bt_revenue", "pc_sold", "pc_revenue", "ro_write"}
    /\ pc'[p] # pc[p] \/ loc'[p] # loc[p] \/ buckets' # buckets \/ sessions' # sessions

C30_Step ==
    \A p \in Procs : LedgerWrite(p) => sessions[loc[p].sessionId].active

\* C30: a booking or a round writes buckets and totalRevenue only of a
\* session that is active when the write is made, also when a load has
\* completed since the handler looked the active session up.
C30_OnlyActiveSessionMutated == [][C30_Step]_vars

====
